---------------------------- MODULE Spec2Model ----------------------------
(***************************************************************************)
(* Model of src/carpriceapp.py, a Streamlit dashboard.  Streamlit runs the *)
(* script from top to bottom on every interaction; one action below is one *)
(* run of the script with the widget values the user chose.  The dataset   *)
(* is loaded once (st.cache_data) and never changes.                       *)
(*                                                                         *)
(* Two families of datasets are explored: datasets of numeric columns for  *)
(* the High Correlations page (SpecCorr) and small datasets of every kind  *)
(* of column for the whole dashboard (Spec).                               *)
(*                                                                         *)
(* Numbers.  A cell of a numeric column is a finite integer, NaN or +inf.  *)
(* A correlation coefficient r is kept exactly, as the sign of r and the   *)
(* reduced fraction r^2 = n/d, or as NaN; two coefficients are equal iff   *)
(* their records are equal.  Floating-point rounding is not modelled.      *)
(* select_dtypes(include=["float64","int"]) is modelled for a platform     *)
(* where numpy's "int" is int64.                                           *)
(***************************************************************************)
EXTENDS Integers, Sequences, FiniteSets

VARIABLES
    df,                  \* the loaded dataset: a sequence of columns
    numeric_df,          \* column names of numeric_df, in order
    categorical_columns, \* column names of categorical_columns, in order
    options,             \* the page chosen in the sidebar radio
    outcome,             \* what the run rendered last, or "exception"
    quick_stats,         \* the four numbers of the Quick Statistics box
    vis_type,
    selected_column,
    range_filter,
    filtered_data,       \* the rows of filtered_data, as row numbers of df
    scatter_x,
    scatter_y,
    correlation,         \* the result of the pearsonr call
    correlation_matrix,
    high_correlations,
    correlated_columns,
    details              \* the table of the Correlation Details box

vars == <<df, numeric_df, categorical_columns, options, outcome, quick_stats,
          vis_type, selected_column, range_filter, filtered_data,
          scatter_x, scatter_y, correlation, correlation_matrix,
          high_correlations, correlated_columns, details>>

---------------------------------------------------------------------------
(* Bounds of the input families. *)

\* rows of a dataset of the correlation family
NRows == 4

\* rows of a dataset of the mixed family
NMixedRows == 2

\* the finite values a numeric cell takes
IntVals == {1, 2}

\* the number of numeric columns of a dataset of the correlation family
CorrWidths == {1, 2, 3}

\* the number of columns of a dataset of the mixed family
MixedWidths == {1, 2}

---------------------------------------------------------------------------
(* Cells and IEEE comparisons. *)

Fin(v) == [k |-> "fin", v |-> v]
NaN == [k |-> "nan", v |-> 0]
Inf == [k |-> "inf", v |-> 0]
Text == [k |-> "text", v |-> 0]
Bool == [k |-> "bool", v |-> 1]

IsFinite(c) == c.k = "fin"

\* a >= b on floats: false when either side is NaN
Ge(a, b) ==
    IF a.k = "nan" \/ b.k = "nan" THEN FALSE
    ELSE IF a.k = "inf" THEN TRUE
    ELSE IF b.k = "inf" THEN FALSE
    ELSE a.v >= b.v

\* a <= b on floats: false when either side is NaN
Le(a, b) == Ge(b, a)

---------------------------------------------------------------------------
(* Datasets.  A column is [dtype, vals]; its name is its position in df.   *)
(* pd.read_csv gives int64 to a column of integers, float64 to a column    *)
(* with a missing or infinite cell (or no cell at all that is present),    *)
(* bool to a column of True/False and object to text.                      *)

\* all sequences of length n over the set S
SeqsOf(S, n) == [1..n -> S]

FinCells == {Fin(v) : v \in IntVals}

\* int64 columns: every cell a finite integer
IntColumns(n) == {[dtype |-> "int64", vals |-> s] : s \in SeqsOf(FinCells, n)}

\* float64 columns with exactly one cell present, the others missing
SparseColumns(n) ==
    {[dtype |-> "float64",
      vals |-> [i \in 1..n |-> IF i = p THEN c ELSE NaN]] :
        p \in 1..n, c \in FinCells}

\* float64 columns with exactly one missing or infinite cell
HoledColumns(n) ==
    {[dtype |-> "float64",
      vals |-> [i \in 1..n |-> IF i = p THEN bad ELSE s[i]]] :
        p \in 1..n, bad \in {NaN, Inf}, s \in SeqsOf(FinCells, n)}

\* the float64 column whose cells are all missing
EmptyColumn(n) == [dtype |-> "float64", vals |-> [i \in 1..n |-> NaN]]

ObjectColumn(n) == [dtype |-> "object", vals |-> [i \in 1..n |-> Text]]
BoolColumn(n) == [dtype |-> "bool", vals |-> [i \in 1..n |-> Bool]]

\* datasets of numeric columns only, for the High Correlations page
CorrDatasets ==
    UNION {SeqsOf(IntColumns(NRows) \cup SparseColumns(NRows), w) :
             w \in CorrWidths}

\* datasets of every kind of column, for the whole dashboard
MixedDatasets ==
    UNION {SeqsOf(IntColumns(NMixedRows) \cup HoledColumns(NMixedRows)
                    \cup {EmptyColumn(NMixedRows), ObjectColumn(NMixedRows),
                          BoolColumn(NMixedRows)}, w) :
             w \in MixedWidths}

\* the column names of a dataset, in order
Columns(d) == [i \in 1..Len(d) |-> i]

\* the row labels of a dataset
Index(d) == IF Len(d) = 0 THEN {} ELSE 1..Len(d[1].vals)

RECURSIVE ColumnsOfKind(_, _, _)
\* the names among d's columns i..Len(d) whose dtype is in kinds, in order
ColumnsOfKind(d, kinds, i) ==
    IF i > Len(d) THEN <<>>
    ELSE IF d[i].dtype \in kinds
         THEN <<i>> \o ColumnsOfKind(d, kinds, i + 1)
         ELSE ColumnsOfKind(d, kinds, i + 1)

\* df.select_dtypes(include=kinds).columns
select_dtypes(d, kinds) == ColumnsOfKind(d, kinds, 1)

\* the dtypes named by include=["float64", "int"]
NumericKinds == {"float64", "int64"}

\* the dtypes named by include=["object"]
CategoricalKinds == {"object"}

Range(s) == {s[i] : i \in DOMAIN s}

---------------------------------------------------------------------------
(* Pearson's r over a set of rows, exactly. *)

RECURSIVE GCD(_, _)
GCD(a, b) == IF b = 0 THEN a ELSE GCD(b, a % b)

\* the running sums t with the observation (a, b) added
AddObs(t, a, b) ==
    <<t[1] + 1, t[2] + a, t[3] + b, t[4] + a * a, t[5] + b * b, t[6] + a * b>>

RECURSIVE SumsFrom(_, _, _, _, _)
\* <<n, sum x, sum y, sum xx, sum yy, sum xy>>: t, and the rows i.. in R added
SumsFrom(x, y, R, i, t) ==
    IF i > Len(x) THEN t
    ELSE IF i \in R
         THEN SumsFrom(x, y, R, i + 1, AddObs(t, x[i].v, y[i].v))
         ELSE SumsFrom(x, y, R, i + 1, t)

CoefNaN == [k |-> "nan", s |-> 0, n |-> 0, d |-> 1]

\* the coefficient of sign sgn whose square is num/den
Coef(sgn, num, den) ==
    IF num = 0 THEN [k |-> "val", s |-> 0, n |-> 0, d |-> 1]
    ELSE LET g == GCD(num, den)
         IN [k |-> "val", s |-> sgn, n |-> num \div g, d |-> den \div g]

\* covxy / sqrt(ssqdmx * ssqdmy) from the three centred sums, each scaled
\* by the number of rows; NaN when the divisor is 0
Ratio(cov, vx, vy) ==
    IF vx * vy = 0 THEN CoefNaN
    ELSE Coef(IF cov > 0 THEN 1 ELSE -1, cov * cov, vx * vy)

\* the centred sums from the raw sums over n rows
Centred(n, sx, sy, sxx, syy, sxy) ==
    Ratio(n * sxy - sx * sy, n * sxx - sx * sx, n * syy - sy * sy)

\* Pearson's r from the raw sums
FromSums(t) == Centred(t[1], t[2], t[3], t[4], t[5], t[6])

\* Pearson's r over the rows R of the cell sequences x, y, all finite on R
PearsonOn(x, y, R) == FromSums(SumsFrom(x, y, R, 1, <<0, 0, 0, 0, 0, 0>>))

\* the numerator of the threshold 0.5 of the High Correlations page
ThresholdNum == 1

\* the denominator of the threshold 0.5 of the High Correlations page
ThresholdDen == 2

\* c > ThresholdNum/ThresholdDen on floats: false for NaN
GtThreshold(c) ==
    /\ c.k = "val"
    /\ c.s = 1
    /\ c.n * ThresholdDen * ThresholdDen > c.d * ThresholdNum * ThresholdNum

\* a > b for two coefficients above the (positive) threshold
GtCoef(a, b) == a.n * b.d > b.n * a.d

---------------------------------------------------------------------------
(* pandas: DataFrame.corr(), pearson, min_periods = 1. *)

\* the rows nancorr keeps for the pair of columns a, b: both cells finite
PairMask(d, a, b) ==
    {i \in Index(d) : IsFinite(d[a].vals[i]) /\ IsFinite(d[b].vals[i])}

\* one cell of nancorr: NaN with no observation or a zero divisor
NanCorr(d, a, b) ==
    LET R == PairMask(d, a, b)
    IN IF Cardinality(R) < 1 THEN CoefNaN
       ELSE PearsonOn(d[a].vals, d[b].vals, R)

Max(a, b) == IF a >= b THEN a ELSE b
Min(a, b) == IF a <= b THEN a ELSE b

\* numeric_df.corr(): nancorr computes the cell of each unordered pair once,
\* from its later and its earlier column, and stores it in both places
corr(d, cols) ==
    [p \in Range(cols) \X Range(cols) |->
        NanCorr(d, Max(p[1], p[2]), Min(p[1], p[2]))]

---------------------------------------------------------------------------
(* The High Correlations page: stack, filter, drop_duplicates. *)

RECURSIVE StackFrom(_, _, _, _)
\* the rows of M.stack().reset_index() from position (i, j) on, row by row;
\* stack leaves out the cells that are NaN
StackFrom(M, cols, i, j) ==
    IF i > Len(cols) THEN <<>>
    ELSE IF j > Len(cols) THEN StackFrom(M, cols, i + 1, 1)
    ELSE LET c == M[<<cols[i], cols[j]>>]
             rest == StackFrom(M, cols, i, j + 1)
         IN IF c.k = "nan" THEN rest
            ELSE <<[Variable1 |-> cols[i], Variable2 |-> cols[j],
                    Correlation |-> c]>> \o rest

\* correlation_matrix.stack().reset_index().rename(...)
stack(M, cols) == StackFrom(M, cols, 1, 1)

\* the row mask of lines 280-283
IsHigh(r) == r.Variable1 # r.Variable2 /\ GtThreshold(r.Correlation)

RECURSIVE DropFrom(_, _, _)
\* the rows i.. of rows whose Correlation is not in seen, first one kept
DropFrom(rows, i, seen) ==
    IF i > Len(rows) THEN <<>>
    ELSE IF rows[i].Correlation \in seen
         THEN DropFrom(rows, i + 1, seen)
         ELSE <<rows[i]>> \o DropFrom(rows, i + 1, seen \cup {rows[i].Correlation})

\* no rows dropped
drop_duplicates_none(rows) == rows

RECURSIVE DropLast(_, _)
\* the rows 1..i of rows, of each Correlation the last one kept
DropLast(rows, i) ==
    IF i = 0 THEN <<>>
    ELSE IF \E j \in (i + 1)..Len(rows) : rows[j].Correlation = rows[i].Correlation
         THEN DropLast(rows, i - 1)
         ELSE Append(DropLast(rows, i - 1), rows[i])

\* rows.drop_duplicates(subset=["Correlation"], keep="last")
drop_duplicates_last(rows) == DropLast(rows, Len(rows))

\* rows.drop_duplicates(subset=["Correlation"])
drop_duplicates(rows) == DropFrom(rows, 1, {})

\* lines 275-284
HighCorrelationsOf(M, cols) == drop_duplicates(SelectSeq(stack(M, cols), IsHigh))

\* lines 287-289
CorrelatedColumnsOf(rows) ==
    {rows[i].Variable1 : i \in DOMAIN rows} \cup {rows[i].Variable2 : i \in DOMAIN rows}

RECURSIVE SortDesc(_)
\* rows.sort_values("Correlation", ascending=False)
SortDesc(rows) ==
    IF rows = <<>> THEN <<>>
    ELSE LET m == CHOOSE i \in DOMAIN rows :
                      \A j \in DOMAIN rows :
                          \/ GtCoef(rows[i].Correlation, rows[j].Correlation)
                          \/ (~GtCoef(rows[j].Correlation, rows[i].Correlation) /\ i <= j)
         IN <<rows[m]>> \o
            SortDesc([k \in 1..(Len(rows) - 1) |-> IF k < m THEN rows[k] ELSE rows[k + 1]])

\* the branch taken whenever the list exists
ShowsHeatmapAlways(cc) == cc \subseteq cc

\* the branch of line 291: a non-empty list is true
ShowsHeatmap(cc) == cc # {}

---------------------------------------------------------------------------
(* The Visualizations page: slider, range filter, pearsonr. *)

\* Series.min(): the least cell that is not NaN, NaN when there is none
ColMin(vals) ==
    LET fin == {vals[i].v : i \in {j \in DOMAIN vals : vals[j].k = "fin"}}
    IN IF fin # {} THEN Fin(CHOOSE m \in fin : \A v \in fin : m <= v)
       ELSE IF \E i \in DOMAIN vals : vals[i].k = "inf" THEN Inf
       ELSE NaN

\* Series.max(): the greatest cell that is not NaN, NaN when there is none
ColMax(vals) ==
    LET fin == {vals[i].v : i \in {j \in DOMAIN vals : vals[j].k = "fin"}}
    IN IF \E i \in DOMAIN vals : vals[i].k = "inf" THEN Inf
       ELSE IF fin # {} THEN Fin(CHOOSE m \in fin : \A v \in fin : m >= v)
       ELSE NaN

\* what st.slider(label, lo, hi, (lo, hi)) can give back: a pair inside
\* [lo, hi], its ends in order.  Streamlit's behaviour for lo = hi and for
\* bounds that are not finite is not fixed by this code: it raises or gives
\* the default back.
SliderOutcomes(lo, hi) ==
    IF lo.k = "fin" /\ hi.k = "fin" /\ lo.v < hi.v
    THEN {[raised |-> FALSE, value |-> <<Fin(p[1]), Fin(p[2])>>] :
             p \in {q \in (lo.v..hi.v) \X (lo.v..hi.v) : q[1] <= q[2]}}
    ELSE {[raised |-> FALSE, value |-> <<lo, hi>>],
          [raised |-> TRUE, value |-> <<NaN, NaN>>]}

\* the mask with the upper end left out
InRangeExclusive(c, rf) == Ge(c, rf[1]) /\ Le(c, rf[2]) /\ c # rf[2]

\* the mask written as "not below and not above", which lets NaN through
InRangeFailOpen(c, rf) == c.k = "nan" \/ (Ge(c, rf[1]) /\ Le(c, rf[2]))

\* the row mask of lines 213-214
InRange(c, rf) == Ge(c, rf[1]) /\ Le(c, rf[2])

RECURSIVE MaskFrom(_, _, _)
\* the rows i.. of the column vals that are in the range rf, in order
MaskFrom(vals, rf, i) ==
    IF i > Len(vals) THEN <<>>
    ELSE IF InRange(vals[i], rf)
         THEN <<i>> \o MaskFrom(vals, rf, i + 1)
         ELSE MaskFrom(vals, rf, i + 1)

\* the rows of df[(df[col] >= rf[0]) & (df[col] <= rf[1])]
FilterRows(d, col, rf) == MaskFrom(d[col].vals, rf, 1)

NoCorrelation ==
    [status |-> "none", rows |-> {}, correlation |-> CoefNaN, p_value |-> "nan"]

\* the rows pearsonr computes over: every row it is given
PearsonrRows(F) == Range(F)

\* scipy.stats.pearsonr(x[F], y[F]): the set of its possible results.
\* Fewer than 2 rows raise ValueError.  A NaN or an infinity among the
\* values gives NaN or raises, depending on the scipy version.  A constant
\* input gives NaN.  The p-value is "1" for 2 rows, "0" for |r| = 1 over
\* more rows and otherwise a value "dist" of the distribution of r.
pearsonr(x, y, F) ==
    LET R == PearsonrRows(F)
        n == Len(F)
        raise == [status |-> "raise", rows |-> R,
                  correlation |-> CoefNaN, p_value |-> "nan"]
        nan == [status |-> "ok", rows |-> R,
                correlation |-> CoefNaN, p_value |-> "nan"]
    IN IF n < 2 THEN {raise}
       ELSE IF \E i \in R : ~IsFinite(x[i]) \/ ~IsFinite(y[i]) THEN {nan, raise}
       ELSE LET r == PearsonOn(x, y, R)
            IN IF r.k = "nan" THEN {nan}
               ELSE {[status |-> "ok", rows |-> R, correlation |-> r,
                      p_value |-> IF n = 2 THEN "1"
                                  ELSE IF r.n = r.d THEN "0" ELSE "dist"]}

---------------------------------------------------------------------------
(* The script.  Lines 117-121 run first on every run. *)

\* lines 117-121: the cached dataset and its two column lists
Classify ==
    /\ df' = df
    /\ numeric_df' = select_dtypes(df, NumericKinds)
    /\ categorical_columns' = select_dtypes(df, CategoricalKinds)

\* the variables of the Visualizations page, when the run does not set them
NoVisualization ==
    /\ vis_type' = ""
    /\ selected_column' = 0
    /\ range_filter' = <<NaN, NaN>>
    /\ filtered_data' = <<>>
    /\ scatter_x' = 0
    /\ scatter_y' = 0
    /\ correlation' = NoCorrelation

\* the variables of the High Correlations page, when the run does not set them
NoHighCorrelations ==
    /\ correlation_matrix' = <<>>
    /\ high_correlations' = <<>>
    /\ correlated_columns' = {}
    /\ details' = <<>>

\* lines 134-148
Home ==
    /\ Classify
    /\ options' = "Home"
    /\ outcome' = "home"
    /\ quick_stats' = <<>>
    /\ NoVisualization
    /\ NoHighCorrelations

\* lines 151-178
DataOverview ==
    /\ Classify
    /\ options' = "Data Overview"
    /\ outcome' = "overview"
    /\ quick_stats' = <<Cardinality(Index(df)), Len(Columns(df)),
                        Len(numeric_df'), Len(categorical_columns')>>
    /\ NoVisualization
    /\ NoHighCorrelations

\* lines 181-215 with no numeric column: the select box gives None and
\* numeric_df[None] raises KeyError
VisualizationsNoColumn ==
    /\ Classify
    /\ numeric_df' = <<>>
    /\ options' = "Visualizations"
    /\ outcome' = "KeyError"
    /\ quick_stats' = <<>>
    /\ \E vt \in {"Scatterplot", "Line Plot", "Boxplot", "Pairplot"} : vis_type' = vt
    /\ selected_column' = 0
    /\ range_filter' = <<NaN, NaN>>
    /\ filtered_data' = <<>>
    /\ scatter_x' = 0
    /\ scatter_y' = 0
    /\ correlation' = NoCorrelation
    /\ NoHighCorrelations

\* lines 181-209 when st.slider raises
VisualizationsSliderError ==
    /\ Classify
    /\ options' = "Visualizations"
    /\ quick_stats' = <<>>
    /\ \E vt \in {"Scatterplot", "Line Plot", "Boxplot", "Pairplot"},
          col \in Range(numeric_df') :
          /\ \E o \in SliderOutcomes(ColMin(df[col].vals), ColMax(df[col].vals)) :
                o.raised
          /\ vis_type' = vt
          /\ selected_column' = col
    /\ outcome' = "StreamlitAPIException"
    /\ range_filter' = <<NaN, NaN>>
    /\ filtered_data' = <<>>
    /\ scatter_x' = 0
    /\ scatter_y' = 0
    /\ correlation' = NoCorrelation
    /\ NoHighCorrelations

\* lines 181-234: the range filter, then the scatterplot and pearsonr
Scatterplot ==
    /\ Classify
    /\ options' = "Visualizations"
    /\ quick_stats' = <<>>
    /\ vis_type' = "Scatterplot"
    /\ \E col \in Range(numeric_df'), x \in Range(numeric_df'), y \in Range(numeric_df') :
          \E o \in SliderOutcomes(ColMin(df[col].vals), ColMax(df[col].vals)) :
             /\ ~o.raised
             /\ selected_column' = col
             /\ range_filter' = o.value
             /\ filtered_data' = FilterRows(df, col, o.value)
             /\ scatter_x' = x
             /\ scatter_y' = y
             /\ correlation' \in pearsonr(df[x].vals, df[y].vals, filtered_data')
    /\ outcome' = IF correlation'.status = "raise" THEN "ValueError" ELSE "metric"
    /\ NoHighCorrelations

\* lines 181-215 and 236-261: the range filter, then a plot that computes
\* nothing.  A box plot needs a categorical column and a pair plot a
\* non-empty selection; without it nothing is drawn.
PlotOnly ==
    /\ Classify
    /\ options' = "Visualizations"
    /\ quick_stats' = <<>>
    /\ \E vt \in {"Line Plot", "Boxplot", "Pairplot"}, col \in Range(numeric_df'),
          selected_vars \in BOOLEAN :
          \E o \in SliderOutcomes(ColMin(df[col].vals), ColMax(df[col].vals)) :
             /\ ~o.raised
             /\ vis_type' = vt
             /\ selected_column' = col
             /\ range_filter' = o.value
             /\ filtered_data' = FilterRows(df, col, o.value)
             /\ outcome' = IF vt = "Boxplot" /\ categorical_columns' = <<>> THEN "empty"
                           ELSE IF vt = "Pairplot" /\ ~selected_vars THEN "empty"
                           ELSE "plot"
    /\ scatter_x' = 0
    /\ scatter_y' = 0
    /\ correlation' = NoCorrelation
    /\ NoHighCorrelations

\* lines 267-314
HighCorrelations ==
    /\ Classify
    /\ options' = "High Correlations"
    /\ quick_stats' = <<>>
    /\ NoVisualization
    /\ correlation_matrix' = corr(df, numeric_df')
    /\ high_correlations' = HighCorrelationsOf(correlation_matrix', numeric_df')
    /\ correlated_columns' = CorrelatedColumnsOf(high_correlations')
    /\ IF ShowsHeatmap(correlated_columns')
       THEN /\ outcome' = "heatmap"
            /\ details' = SortDesc(high_correlations')
       ELSE /\ outcome' = "info"
            /\ details' = <<>>

---------------------------------------------------------------------------
(* Specifications.  The first run of a session shows the Home page. *)

FirstRun ==
    /\ numeric_df = select_dtypes(df, NumericKinds)
    /\ categorical_columns = select_dtypes(df, CategoricalKinds)
    /\ options = "Home"
    /\ outcome = "home"
    /\ quick_stats = <<>>
    /\ vis_type = ""
    /\ selected_column = 0
    /\ range_filter = <<NaN, NaN>>
    /\ filtered_data = <<>>
    /\ scatter_x = 0
    /\ scatter_y = 0
    /\ correlation = NoCorrelation
    /\ correlation_matrix = <<>>
    /\ high_correlations = <<>>
    /\ correlated_columns = {}
    /\ details = <<>>

\* the whole dashboard over datasets of every kind of column
Init == df \in MixedDatasets /\ FirstRun

Next ==
    \/ Home
    \/ DataOverview
    \/ VisualizationsNoColumn
    \/ VisualizationsSliderError
    \/ Scatterplot
    \/ PlotOnly
    \/ HighCorrelations

Spec == Init /\ [][Next]_vars

\* sessions that go between the Home page and the High Correlations page,
\* over datasets of numeric columns
InitCorr == df \in CorrDatasets /\ FirstRun

NextCorr ==
    \/ Home
    \/ HighCorrelations

SpecCorr == InitCorr /\ [][NextCorr]_vars

---------------------------------------------------------------------------
(* Properties of the High Correlations page. *)

\* the run just made was the High Correlations page
RanHighCorrelations == options = "High Correlations"

\* the unordered pair {a, b} is among the retained rows
Retained(a, b) ==
    \E i \in DOMAIN high_correlations :
        {high_correlations[i].Variable1, high_correlations[i].Variable2} = {a, b}

\* the position of a column in the ordering the matrix was built from
PositionOf(c) == CHOOSE i \in DOMAIN numeric_df : numeric_df[i] = c

\* C1: whenever two distinct unordered pairs of columns both have a
\* coefficient above the threshold and the two coefficients are equal, both
\* pairs are among the retained rows.
C1_EqualCoefficientsBothRetained ==
    RanHighCorrelations =>
        \A a, b, c, d \in Range(numeric_df) :
            ( /\ a # b
              /\ c # d
              /\ {a, b} # {c, d}
              /\ GtThreshold(correlation_matrix[<<a, b>>])
              /\ GtThreshold(correlation_matrix[<<c, d>>])
              /\ correlation_matrix[<<a, b>>] = correlation_matrix[<<c, d>>] )
            => Retained(a, b) /\ Retained(c, d)

\* C2: the retained rows never hold both (a, b) and (b, a), and never a
\* self-pair (a, a).
C2_NoMirrorNoSelfPair ==
    RanHighCorrelations =>
        /\ \A i \in DOMAIN high_correlations :
              high_correlations[i].Variable1 # high_correlations[i].Variable2
        /\ \A i, j \in DOMAIN high_correlations :
              ~ ( /\ high_correlations[i].Variable1 = high_correlations[j].Variable2
                  /\ high_correlations[i].Variable2 = high_correlations[j].Variable1 )

\* a run of the page that retained two rows or more, from a matrix in which
\* both orientations of each retained pair are above the threshold
C2_Witness ==
    /\ RanHighCorrelations
    /\ Len(high_correlations) >= 2
    /\ \A i \in DOMAIN high_correlations :
          /\ GtThreshold(correlation_matrix[<<high_correlations[i].Variable1,
                                               high_correlations[i].Variable2>>])
          /\ GtThreshold(correlation_matrix[<<high_correlations[i].Variable2,
                                               high_correlations[i].Variable1>>])

\* C4: the correlation matrix is symmetric and every diagonal cell is 1.0.
C4_SymmetricUnitDiagonal ==
    RanHighCorrelations =>
        /\ \A a, b \in Range(numeric_df) :
              correlation_matrix[<<a, b>>] = correlation_matrix[<<b, a>>]
        /\ \A a \in Range(numeric_df) :
              correlation_matrix[<<a, a>>] = Coef(1, 1, 1)

\* C9: with no numeric column the page computes an empty matrix, retains no
\* pair, finds no correlated column and ends in the "no correlations" message.
C9_NoNumericColumns ==
    (RanHighCorrelations /\ numeric_df = <<>>) =>
        /\ DOMAIN correlation_matrix = {}
        /\ high_correlations = <<>>
        /\ correlated_columns = {}
        /\ details = <<>>
        /\ outcome = "info"

\* a run of the page on a dataset that has columns, none of them numeric
C9_Witness ==
    /\ RanHighCorrelations
    /\ Len(df) > 0
    /\ numeric_df = <<>>
    /\ outcome \in {"info", "heatmap"}

\* C10: in every retained row Variable 1 comes before Variable 2 in the
\* ordering of the numeric columns, whatever the coefficient.
C10_FirstBeforeSecond ==
    RanHighCorrelations =>
        \A i \in DOMAIN high_correlations :
            PositionOf(high_correlations[i].Variable1)
                < PositionOf(high_correlations[i].Variable2)

\* a run of the page that retained rows with two different coefficients
C10_Witness ==
    /\ RanHighCorrelations
    /\ \E i, j \in DOMAIN high_correlations :
          GtCoef(high_correlations[i].Correlation, high_correlations[j].Correlation)

---------------------------------------------------------------------------
(* Properties of the Visualizations page and of the column lists. *)

\* the run just made computed filtered_data
FilterRan ==
    /\ options = "Visualizations"
    /\ outcome \notin {"KeyError", "StreamlitAPIException"}

\* the run just made called pearsonr
ScatterRan == FilterRan /\ vis_type = "Scatterplot"

\* a <= b for two numbers, neither of them NaN
RealLe(a, b) ==
    \/ b.k = "inf"
    \/ (a.k = "fin" /\ b.k = "fin" /\ a.v <= b.v)

\* low <= c <= high for a cell that is a number
Between(c, low, high) ==
    /\ c.k \in {"fin", "inf"}
    /\ low.k \in {"fin", "inf"}
    /\ high.k \in {"fin", "inf"}
    /\ RealLe(low, c)
    /\ RealLe(c, high)

\* the cell of row r in the filter column
FilterCell(r) == df[selected_column].vals[r]

\* the rows of filtered_data where both scatter values are finite
ValidRows ==
    {r \in Range(filtered_data) :
        IsFinite(df[scatter_x].vals[r]) /\ IsFinite(df[scatter_y].vals[r])}

\* C3: pearsonr is computed over exactly the rows where both values are
\* finite, and with fewer than 2 such rows the result is coefficient 0 and
\* p-value 1, never an exception or an undefined value.
C3_SafeCorrelation ==
    ScatterRan =>
        /\ correlation.status = "ok"
        /\ correlation.rows = ValidRows
        /\ Cardinality(ValidRows) < 2 =>
              /\ correlation.correlation = Coef(1, 0, 1)
              /\ correlation.p_value = "1"

\* the rows of filtered_data are rows of df in their original order, each
\* inside the range, and no row inside the range is missing from them
FilterIsExact ==
    FilterRan =>
        /\ \A i \in DOMAIN filtered_data : filtered_data[i] \in Index(df)
        /\ \A i, j \in DOMAIN filtered_data :
              i < j => filtered_data[i] < filtered_data[j]
        /\ \A i \in DOMAIN filtered_data :
              Between(FilterCell(filtered_data[i]), range_filter[1], range_filter[2])
        /\ \A r \in Index(df) :
              Between(FilterCell(r), range_filter[1], range_filter[2])
                  => r \in Range(filtered_data)

\* C5: the filtered rows are a subset of the rows of df in their original
\* order, each with low <= value <= high, every row with its value in
\* [low, high] is among them, and no run changes df.
C5_RangeFilter == []FilterIsExact /\ [][df' = df]_vars

\* a run whose filter kept a row that lies on an end of the range and
\* dropped a row whose cell is a number
C5_Witness ==
    /\ FilterRan
    /\ \E i \in DOMAIN filtered_data :
          FilterCell(filtered_data[i]) \in {range_filter[1], range_filter[2]}
    /\ \E r \in Index(df) \ Range(filtered_data) : IsFinite(FilterCell(r))

\* C7: every column is in exactly one of numeric_df and categorical_columns,
\* and a column whose cells are all missing is in categorical_columns.
C7_ColumnPartition ==
    \A c \in Range(Columns(df)) :
        /\ (c \in Range(numeric_df)) # (c \in Range(categorical_columns))
        /\ (\A r \in Index(df) : df[c].vals[r].k = "nan")
              => c \in Range(categorical_columns)

\* C8: no row whose filter cell is missing is among the filtered rows.
C8_MissingExcluded ==
    FilterRan =>
        \A i \in DOMAIN filtered_data : FilterCell(filtered_data[i]).k # "nan"

\* a run with the default full range over a column that has a missing cell
\* and a present one
C8_Witness ==
    /\ FilterRan
    /\ range_filter = <<ColMin(df[selected_column].vals), ColMax(df[selected_column].vals)>>
    /\ \E r \in Index(df) : FilterCell(r).k = "nan"
    /\ filtered_data # <<>>

===========================================================================
